---- MODULE Spec2Model ----
(***************************************************************************)
(* octosurfer: the repository-processing pipeline of src/main.rs.          *)
(*                                                                         *)
(* Runner::run drives discovery (rate-limit check, search, page fetches),  *)
(* spawns one task per discovered repository (handle_repo), awaits the     *)
(* tasks, aggregates their results, writes the CSV report and removes the  *)
(* owner directories.  The tasks run concurrently with the runner and      *)
(* with each other and share the file system below the target directory.   *)
(*                                                                         *)
(* Strings are modelled by what the code reads of them: a user filter by   *)
(* its number of characters, a path below the target directory by its      *)
(* <<owner, name>> components, a report row by its sequence of fields.     *)
(***************************************************************************)
EXTENDS Integers, Sequences, FiniteSets, TLC

(***************************************************************************)
(* Bounds of the model.                                                    *)
(***************************************************************************)
MaxPages == 2       \* pages the provider serves at most
MaxPageLen == 2     \* descriptors in one page at most
MaxUnits == 2       \* descriptors the provider serves in all at most
MaxWait == 1        \* how far ahead of the clock a reset timestamp may lie
MaxFileLen == 4     \* characters in the query file at most

(***************************************************************************)
(* Program constants.                                                      *)
(***************************************************************************)
MaxQueryChars == 256     \* github_query.rs: s.chars().count() > 256
LowBudget == 10          \* main.rs: remaining < 10
LowBudgetDelay == 5      \* main.rs: sleep(Duration::from_secs(5))

None == "None"
Absent == <<>>

\* octocrab::models::Repository, the fields handle_repo and handle_page read:
\* owner is Option<Author> (its login), clone_url is Option<Url>.
Descriptors ==
    {[owner |-> "oA", name |-> "r1", clone_url |-> TRUE],
     [owner |-> "oA", name |-> "r2", clone_url |-> TRUE],
     [owner |-> "oB", name |-> "r1", clone_url |-> TRUE],
     [owner |-> None, name |-> "r1", clone_url |-> TRUE],
     [owner |-> "oB", name |-> "r2", clone_url |-> FALSE]}

\* Working copies that earlier runs may have left below the target directory.
InitialClones == {{<<"oA", "r1">>}}

\* The command lines of the model: each filter is the sequence of the character
\* counts of its comma-separated parts, and Absent when the option is not given
\* (split(',') yields at least one part, so a given option is never empty).
CliChoices ==
    {[keywords |-> <<200, 45>>, languages |-> Absent, pushed |-> Absent,
      stars |-> Absent, topics |-> <<3>>],
     [keywords |-> <<200, 45>>, languages |-> Absent, pushed |-> Absent,
      stars |-> <<4>>, topics |-> Absent]}

\* CodeQueries of the run and the counts a scan may return (QueryResults.inner:
\* only patterns that matched have an entry).
Patterns == <<"foo", "bar">>
ScanResults == {[p \in {"foo"} |-> 3], [p \in {"bar"} |-> 1]}

Remainings == {0, 9, 30}

VARIABLES
    cli_app,      \* OctoSurfer: the filters and the rm switch
    pc,           \* position of Runner::run
    error,        \* the error run returned, "" while there is none
    now,          \* the clock (seconds)
    rate,         \* check_rate_limit: its rate-limit response, NoRate outside the call
    wakeAt,       \* check_rate_limit: the deadline of its sleep, 0 outside the call
    page,         \* run: the current page (number, items, next)
    units,        \* the runtime's tasks, one per tokio::spawn(handle_repo): the
                  \* descriptor, the position, and the Result (inner or err)
    handles,      \* run: Vec<JoinHandle>, as indices into units
    joined,       \* run: number of handles awaited so far
    succeeded,    \* run: counter
    failed,       \* run: counter
    results,      \* Aggregator.results: identifier -> inner
    report,       \* the report file: NoReport, or its header and rows
    rm_paths,     \* Runner.rm_paths (owner directories)
    rm_left,      \* run: what the iteration over rm_paths has not visited yet
    repoDirs,     \* file system: the directories target_dir/owner/name
    ownerDirs,    \* file system: the directories target_dir/owner
    netlog,       \* history: the network calls made, in order
    discovered,   \* history: the descriptors the provider has served
    query_file,   \* the content of cli_app.query_file, a sequence of characters
    code_queries, \* main: what CodeQueries::from_file returned
    tree,         \* a working copy on disk: its directory name and its entries
    counts        \* what search_repo returned for tree

vars == <<cli_app, pc, error, now, rate, wakeAt, page, units, handles, joined,
          succeeded, failed, results, report, rm_paths, rm_left, repoDirs,
          ownerDirs, netlog, discovered, query_file, code_queries, tree, counts>>

\* main's query file and its CodeQueries, and the working copy of the scan
\* that is looked at by itself: Runner::run writes none of them
aux == <<query_file, code_queries, tree, counts>>

(***************************************************************************)
(* Helpers.                                                                *)
(***************************************************************************)
EmptyMap == [x \in {} |-> 0]

Put(m, k, v) == [x \in (DOMAIN m) \cup {k} |-> IF x = k THEN v ELSE m[x]]

SeqsUpTo(S, n) == UNION {[1..k -> S] : k \in 0..n}

RECURSIVE SumSeq(_)
SumSeq(s) == IF s = <<>> THEN 0 ELSE Head(s) + SumSeq(Tail(s))

Min(a, b) == IF a <= b THEN a ELSE b

(***************************************************************************)
(* github_query.rs                                                         *)
(***************************************************************************)
\* s.push_str(prefix); s.push_str(part) for every part of an optional filter
PushAll(filter, prefixLen) ==
    IF filter = Absent THEN 0 ELSE SumSeq(filter) + prefixLen * Len(filter)

\* GithubQuery::to_query_string: the number of characters of the string built
QueryChars(q) ==
    SumSeq(q.keywords) + (Len(q.keywords) - 1)       \* keywords.join(" ")
    + PushAll(q.languages, 10)                       \* " language:"
    + PushAll(q.pushed, 8)                           \* " pushed:"
    + PushAll(q.stars, 7)                            \* " stars:"
    + PushAll(q.topics, 7)                           \* " topic:"

\* GithubQuery::to_query_string: Err iff the string exceeds 256 characters
QueryTooLong(q) == QueryChars(q) > MaxQueryChars

(***************************************************************************)
(* aggregate.rs                                                            *)
(***************************************************************************)
\* format!("{}/{}", results.repo_owner, results.repo_name)
Identifier(owner, name) == <<owner, "/", name>>

\* Aggregator::add keyed by the owner alone
AggregatorAddByOwner(res, owner, name, inner) == Put(res, Identifier(owner, ""), inner)

\* Aggregator::add merging the counts into the entry the identifier has
AggregatorAddMerging(res, owner, name, inner) ==
    LET id == Identifier(owner, name)
        old == IF id \in DOMAIN res THEN res[id] ELSE EmptyMap
    IN  Put(res, id, [p \in (DOMAIN old) \cup (DOMAIN inner) |->
                        IF p \in DOMAIN inner THEN inner[p] ELSE old[p]])

\* Aggregator::add
AggregatorAdd(res, owner, name, inner) == Put(res, Identifier(owner, name), inner)

\* Aggregator::write: the header, and one row per entry of results
Header == <<"repo">> \o Patterns

\* a row of the counts found only, the patterns without a match left out
RowOfMatchesOnly(id, inner) ==
    <<id>> \o SelectSeq([i \in 1..Len(Patterns) |->
                           IF Patterns[i] \in DOMAIN inner THEN inner[Patterns[i]] ELSE 0],
                        LAMBDA c : c # 0)

Row(id, inner) ==
    <<id>> \o [i \in 1..Len(Patterns) |->
                 IF Patterns[i] \in DOMAIN inner THEN inner[Patterns[i]] ELSE 0]

Render(res) == [header |-> Header, rows |-> {Row(id, res[id]) : id \in DOMAIN res}]

(***************************************************************************)
(* code_queries.rs                                                         *)
(***************************************************************************)
\* The characters of the model's query files: a letter, a blank, a line feed.
FileChars == {"a", " ", "\n"}

QueryFiles == SeqsUpTo(FileChars, MaxFileLen)

\* the query file that spells the two patterns of Patterns, one per line
PatternsFile == <<"f", "o", "o", "\n", "b", "a", "r", "\n">>

\* AsyncBufReadExt::lines / next_line: the text up to each line feed, and the
\* rest after the last one if there is any; the line feed is not part of a line
RECURSIVE Lines(_)
Lines(f) ==
    IF f = <<>> THEN <<>>
    ELSE IF \E k \in 1..Len(f) : f[k] = "\n"
         THEN LET k == CHOOSE k \in 1..Len(f) :
                          f[k] = "\n" /\ \A j \in 1..(k - 1) : f[j] # "\n"
              IN  <<SubSeq(f, 1, k - 1)>> \o Lines(SubSeq(f, k + 1, Len(f)))
         ELSE <<f>>

\* char::is_whitespace, on the characters a line can hold
IsWhitespace(c) == c = " "

RECURSIVE TrimStart(_)
TrimStart(l) ==
    IF l # <<>> /\ IsWhitespace(Head(l)) THEN TrimStart(Tail(l)) ELSE l

RECURSIVE TrimEnd(_)
TrimEnd(l) ==
    IF l # <<>> /\ IsWhitespace(l[Len(l)]) THEN TrimEnd(SubSeq(l, 1, Len(l) - 1)) ELSE l

\* str::trim
Trim(l) == TrimEnd(TrimStart(l))

\* from_file leaving out the lines that are empty once trimmed
FromFileSkippingBlanks(f) ==
    LET inner == SelectSeq([i \in 1..Len(Lines(f)) |-> Trim(Lines(f)[i])],
                           LAMBDA l : l # <<>>)
    IN  IF inner = <<>>
        THEN [state |-> "err", inner |-> <<>>]
        ELSE [state |-> "ok", inner |-> inner]

\* CodeQueries::from_file: push(line.trim()) for every line, "Empty query
\* file!" if nothing was pushed
FromFile(f) ==
    LET inner == [i \in 1..Len(Lines(f)) |-> Trim(Lines(f)[i])]
    IN  IF inner = <<>>
        THEN [state |-> "err", inner |-> <<>>]
        ELSE [state |-> "ok", inner |-> inner]

\* main before the call of from_file
Unread == [state |-> "unread", inner |-> <<>>]

(***************************************************************************)
(* search.rs: the walk of search_repo                                      *)
(***************************************************************************)
\* A file name is its sequence of characters.  An entry of a working copy is
\* its path below the root (a sequence of names), whether it is a regular
\* file, and the number of matches the searcher finds in it.
Entries ==
    {[path |-> << <<"R">> >>,                            file |-> TRUE,  hits |-> 1],
     [path |-> << <<".", "g">> >>,                       file |-> FALSE, hits |-> 0],
     [path |-> << <<".", "g">>, <<"c">> >>,              file |-> TRUE,  hits |-> 2],
     [path |-> << <<"s">> >>,                            file |-> FALSE, hits |-> 0],
     [path |-> << <<"s">>, <<"m">> >>,                   file |-> TRUE,  hits |-> 4],
     [path |-> << <<"s">>, <<".", "e">> >>,              file |-> TRUE,  hits |-> 8],
     [path |-> << <<"s">>, <<".", "c">> >>,              file |-> FALSE, hits |-> 0],
     [path |-> << <<"s">>, <<".", "c">>, <<"d">> >>,     file |-> TRUE,  hits |-> 16]}

\* the names a repository may have, and so its directory below target_dir/owner
RepoNames == {<<"r">>, <<".", "g">>}

Parent(path) == SubSeq(path, 1, Len(path) - 1)

\* the working copies: every entry below the root lies in a directory of the copy
WorkingCopies ==
    {[root |-> r, entries |-> S] :
        r \in RepoNames,
        S \in {S \in SUBSET Entries :
                 \A e \in S : Len(e.path) > 1 =>
                    \E d \in S : ~d.file /\ d.path = Parent(e.path)}}

\* is_hidden: file_name().to_str().map(|s| s.starts_with('.'))
is_hidden(name) == name # <<>> /\ Head(name) = "."

not_hidden(name) == ~is_hidden(name)

\* read_dir of the directory at path dir
Children(t, dir) == {e \in t.entries : Parent(e.path) = dir}

\* WalkDir below a directory, under filter_entry(not_hidden): an entry that
\* fails the predicate is not yielded and, if a directory, not descended into
RECURSIVE WalkBelow(_, _)
WalkBelow(t, dir) ==
    UNION {IF not_hidden(e.path[Len(e.path)])
           THEN {e} \cup (IF e.file THEN {} ELSE WalkBelow(t, e.path))
           ELSE {} : e \in Children(t, dir)}

\* WalkDir::new(path).into_iter().filter_entry(not_hidden): the first entry is
\* the root itself (depth 0, file_name the last component of path), and the
\* predicate is applied to it as to every other entry
Walk(t) ==
    IF not_hidden(t.root)
    THEN {[path |-> <<>>, file |-> FALSE, hits |-> 0]} \cup WalkBelow(t, <<>>)
    ELSE {}

RECURSIVE SumHits(_)
SumHits(S) ==
    IF S = {} THEN 0
    ELSE LET e == CHOOSE e \in S : TRUE IN e.hits + SumHits(S \ {e})

\* search_repo: search_path on every entry of the walk that is a regular file
SearchRepoHits(t) == SumHits({e \in Walk(t) : e.file})

NoTree == [root |-> <<"r">>, entries |-> {}]
NotSearched == [done |-> FALSE, hits |-> 0]

(***************************************************************************)
(* The provider and the initial state.                                     *)
(***************************************************************************)
\* A page the provider may serve for continuation token k: its items, and the
\* token of the next page (0: the provider reports no further page).
ProviderPage(k, served) ==
    {[number |-> k, items |-> it, next |-> nx] :
        it \in SeqsUpTo(Descriptors, Min(MaxPageLen, MaxUnits - served)),
        nx \in IF k < MaxPages THEN {0, k + 1} ELSE {0}}

\* A rate-limit response at time t.  The reset timestamp matters only when the
\* remaining budget is 0.
RateResponses(t) ==
    {[remaining |-> 0, reset |-> r] : r \in (t - 1)..(t + MaxWait)}
    \cup {[remaining |-> n, reset |-> t + MaxWait] : n \in Remainings \ {0}}

NoPage == [number |-> 0, items |-> <<>>, next |-> 0]
NoRate == [remaining |-> 30, reset |-> 0]
NoReport == [header |-> <<>>, rows |-> {}]

\* main: the parsed command line and the fields of the Runner, and the world
\* around it
RunnerInit ==
    /\ cli_app \in {[keywords |-> c.keywords, languages |-> c.languages,
                     pushed |-> c.pushed, stars |-> c.stars, topics |-> c.topics,
                     rm |-> b] : c \in CliChoices, b \in BOOLEAN}
    /\ pc = "check0"
    /\ error = ""
    /\ now = 1
    /\ rate = NoRate
    /\ wakeAt = 0
    /\ page = NoPage
    /\ units = <<>>
    /\ handles = <<>>
    /\ joined = 0
    /\ succeeded = 0
    /\ failed = 0
    /\ results = EmptyMap
    /\ report = NoReport
    /\ rm_paths = {}
    /\ rm_left = {}
    /\ repoDirs \in InitialClones
    /\ ownerDirs = {p[1] : p \in repoDirs}
    /\ netlog = <<>>
    /\ discovered = <<>>

\* main: the Runner as constructed, before run is called; the query file has
\* been read
Init ==
    /\ RunnerInit
    /\ query_file = PatternsFile
    /\ code_queries = FromFile(PatternsFile)
    /\ tree = NoTree
    /\ counts = NotSearched

(***************************************************************************)
(* Runner (main.rs)                                                        *)
(***************************************************************************)
\* run returns Err through `?`: its locals, the handles among them, are dropped
Fail(kind) ==
    /\ pc' = "failed"
    /\ error' = kind
    /\ handles' = <<>>

\* the page loop left by `break` on a failed request, instead of `?`
DiscoveryFailureBreaks ==
    /\ pc' = "join"
    /\ error' = "discovery"
    /\ UNCHANGED handles

\* run: the `?` on the rate-limit query, the search request and the page fetch
DiscoveryFailure == Fail("discovery")

\* the loop over the handles left after the first handle
LoopDoneAfterFirst(j, hs) == j >= 1 \/ Len(hs) = 0

\* run: `for handle in handles` has awaited j of the handles hs
LoopDone(j, hs) == j = Len(hs)

\* wait_for_reset without its sleep
WaitForResetNoSleep(reset_ts, t) == t

\* Runner::wait_for_reset: the time at which the runner goes on
WaitForReset(reset_ts, t) == IF reset_ts > t THEN reset_ts ELSE t

\* Runner::check_rate_limit: the time at which the runner goes on
RateLimitWake(r, t) ==
    IF r.remaining = 0 THEN WaitForReset(r.reset, t)
    ELSE IF r.remaining < LowBudget THEN t + LowBudgetDelay
    ELSE t

Sleeping == pc \in {"sleep0", "sleep"}

\* Runner::check_rate_limit, called at the start of run (check0) and in the
\* page loop (check)
CheckRateLimit ==
    /\ pc \in {"check0", "check"}
    /\ netlog' = Append(netlog, [call |-> "ratelimit", token |-> 0])
    /\ \/ /\ DiscoveryFailure
          /\ UNCHANGED <<rate, wakeAt>>
       \/ \E r \in RateResponses(now) :
            /\ rate' = r
            /\ wakeAt' = RateLimitWake(r, now)
            /\ pc' = IF wakeAt' > now
                     THEN (IF pc = "check0" THEN "sleep0" ELSE "sleep")
                     ELSE (IF pc = "check0" THEN "query" ELSE "next")
            /\ UNCHANGED <<error, handles>>
    /\ UNCHANGED <<aux, cli_app, now, page, units, joined, succeeded, failed, results,
                   report, rm_paths, rm_left, repoDirs, ownerDirs, discovered>>

\* tokio::time::sleep returns once the deadline has passed
Wake ==
    /\ Sleeping
    /\ now >= wakeAt
    /\ pc' = IF pc = "sleep0" THEN "query" ELSE "next"
    /\ UNCHANGED <<aux, cli_app, error, now, rate, wakeAt, page, units, handles, joined,
                   succeeded, failed, results, report, rm_paths, rm_left, repoDirs,
                   ownerDirs, netlog, discovered>>

\* The clock.  The program reads it only in wait_for_reset and in its sleeps,
\* so it is advanced only while the runner sleeps, and then as far as the
\* deadline (no step reads the instants in between).
Tick ==
    /\ Sleeping
    /\ now < wakeAt
    /\ now' = wakeAt
    /\ UNCHANGED <<aux, cli_app, pc, error, rate, wakeAt, page, units, handles, joined,
                   succeeded, failed, results, report, rm_paths, rm_left, repoDirs,
                   ownerDirs, netlog, discovered>>

\* run: to_query_string()? and the initial search request
Search ==
    /\ pc = "query"
    /\ IF QueryTooLong(cli_app)
       THEN /\ Fail("config")
            /\ UNCHANGED <<page, netlog, discovered>>
       ELSE /\ netlog' = Append(netlog, [call |-> "search", token |-> 1])
            /\ \/ /\ DiscoveryFailure
                  /\ UNCHANGED <<page, discovered>>
               \/ \E p \in ProviderPage(1, Len(discovered)) :
                    /\ page' = p
                    /\ discovered' = discovered \o p.items
                    /\ pc' = "page"
                    /\ UNCHANGED <<error, handles>>
    /\ rate' = NoRate
    /\ wakeAt' = 0
    /\ UNCHANGED <<aux, cli_app, now, units, joined, succeeded, failed,
                   results, report, rm_paths, rm_left, repoDirs, ownerDirs>>

\* tokio::spawn(handle_repo(repo, ...)): the new task
NewUnit(repo) == [repo |-> repo, pc |-> "spawned", inner |-> EmptyMap, err |-> ""]

\* Runner::handle_page: the number of items the loop spawns a task for.  With
\* rm set, the loop returns Err at the first item without an owner.
SpawnCount(items, rm) ==
    LET bad == {i \in 1..Len(items) : rm /\ items[i].owner = None}
    IN  IF bad = {} THEN Len(items)
        ELSE (CHOOSE i \in bad : \A j \in bad : i <= j) - 1

\* Runner::handle_page and handles.extend
HandlePage ==
    /\ pc = "page"
    /\ LET n == SpawnCount(page.items, cli_app.rm)
           spawned == SubSeq(page.items, 1, n)
       IN  /\ units' = units \o [i \in 1..n |-> NewUnit(spawned[i])]
           /\ rm_paths' = IF cli_app.rm
                          THEN rm_paths \cup {spawned[i].owner : i \in 1..n}
                          ELSE rm_paths
           /\ IF n = Len(page.items)
              THEN /\ handles' = handles \o [i \in 1..n |-> Len(units) + i]
                   /\ pc' = "check"
                   /\ UNCHANGED error
              ELSE Fail("metadata")
    /\ UNCHANGED <<aux, cli_app, now, rate, wakeAt, page, joined, succeeded, failed,
                   results, report, rm_left, repoDirs, ownerDirs, netlog, discovered>>

\* run: octocrab.get_page(&page.next): None without a request when there is no
\* next page, else the request for the page the token names
NextToken(p) == p.next

GetPage ==
    /\ pc = "next"
    /\ IF page.next = 0
       THEN /\ pc' = "join"
            /\ UNCHANGED <<error, handles, page, netlog, discovered>>
       ELSE /\ netlog' = Append(netlog, [call |-> "page", token |-> NextToken(page)])
            /\ \/ /\ DiscoveryFailure
                  /\ UNCHANGED <<page, discovered>>
               \/ \E p \in ProviderPage(NextToken(page), Len(discovered)) :
                    /\ page' = p
                    /\ discovered' = discovered \o p.items
                    /\ pc' = "page"
                    /\ UNCHANGED <<error, handles>>
    /\ rate' = NoRate
    /\ wakeAt' = 0
    /\ UNCHANGED <<aux, cli_app, now, units, joined, succeeded, failed,
                   results, report, rm_paths, rm_left, repoDirs, ownerDirs>>

\* A task whose future has returned: its JoinHandle is ready
Finished(u) == u.pc \in {"ok", "err"}

\* run: `handle.await?` of the next handle, and the match on its outcome.  The
\* `?` is for a JoinError (a task that panicked or was aborted): handle_repo has
\* no panic of its own and nothing aborts a task while run is awaiting.
Join ==
    /\ pc = "join"
    /\ joined < Len(handles)
    /\ LET u == units[handles[joined + 1]]
       IN  /\ Finished(u)
           /\ IF u.pc = "ok"
              THEN /\ succeeded' = succeeded + 1
                   /\ results' = AggregatorAdd(results, u.repo.owner, u.repo.name, u.inner)
                   /\ UNCHANGED failed
              ELSE /\ failed' = failed + 1
                   /\ UNCHANGED <<succeeded, results>>
    /\ joined' = joined + 1
    /\ UNCHANGED <<aux, cli_app, pc, error, now, rate, wakeAt, page, units, handles,
                   report, rm_paths, rm_left, repoDirs, ownerDirs, netlog, discovered>>

\* run, after the report: the removal of the owner directories, if requested
AfterWrite(rm, left) == IF rm /\ left # {} THEN "cleanup" ELSE "done"

\* run: aggregator.write(out_file)?, once every handle has been awaited
Write ==
    /\ pc = "join"
    /\ LoopDone(joined, handles)
    /\ \/ /\ report' = Render(results)
          /\ rm_left' = IF cli_app.rm THEN rm_paths ELSE {}
          /\ pc' = AfterWrite(cli_app.rm, rm_paths)
          /\ UNCHANGED <<error, handles>>
       \/ /\ Fail("output")
          /\ UNCHANGED <<report, rm_left>>
    /\ UNCHANGED <<aux, cli_app, now, rate, wakeAt, page, units, joined, succeeded, failed,
                   results, rm_paths, repoDirs, ownerDirs, netlog, discovered>>

\* tokio::fs::remove_dir succeeds on an existing, empty directory only
Removable(owner) ==
    /\ owner \in ownerDirs
    /\ \A p \in repoDirs : p[1] # owner

\* run: one round of `for path in self.rm_paths.iter() { remove_dir(path)? }`
Cleanup ==
    /\ pc = "cleanup"
    /\ \E o \in rm_left :
         IF Removable(o)
         THEN /\ ownerDirs' = ownerDirs \ {o}
              /\ rm_left' = rm_left \ {o}
              /\ pc' = AfterWrite(TRUE, rm_left')
              /\ UNCHANGED <<error, handles>>
         ELSE /\ Fail("cleanup")
              /\ UNCHANGED <<ownerDirs, rm_left>>
    /\ UNCHANGED <<aux, cli_app, now, rate, wakeAt, page, units, joined, succeeded, failed,
                   results, report, rm_paths, repoDirs, netlog, discovered>>

\* main returns what run returned: the runtime is dropped, and the tasks that
\* have not finished are cancelled
Exit ==
    /\ pc \in {"done", "failed"}
    /\ pc' = "exited"
    /\ units' = [i \in 1..Len(units) |->
                   IF Finished(units[i]) THEN units[i]
                   ELSE [units[i] EXCEPT !.pc = "cancelled"]]
    /\ UNCHANGED <<aux, cli_app, error, now, rate, wakeAt, page, handles, joined, succeeded,
                   failed, results, report, rm_paths, rm_left, repoDirs, ownerDirs,
                   netlog, discovered>>

(***************************************************************************)
(* The tasks: handle_repo (main.rs) and search_repo (search.rs)            *)
(***************************************************************************)
\* base.join(owner).join(name)
ClonePath(repo) == <<repo.owner, repo.name>>

Running(u) == u.pc \notin {"spawned", "ok", "err", "cancelled"}

SetUnit(i, u) == units' = [units EXCEPT ![i] = u]

\* the task tries the step again instead of returning Err
OutcomeRetries(u, ok, next, why) ==
    IF ok THEN [u EXCEPT !.pc = next] ELSE u

\* the task returns Err(anyhow!(...)) or goes on to the next step
Outcome(u, ok, next, why) ==
    IF ok THEN [u EXCEPT !.pc = next] ELSE [u EXCEPT !.pc = "err", !.err = why]

UnitFrame == UNCHANGED <<aux, cli_app, pc, error, now, rate, wakeAt, page, handles, joined,
                         succeeded, failed, results, report, rm_paths, rm_left,
                         netlog, discovered>>

\* handle_repo without the existence check: always create_dir_all and git clone
AcquisitionAlwaysClones(repo, dirs) ==
    IF repo.owner = None THEN "owner"
    ELSE IF ~repo.clone_url THEN "url"
    ELSE "mkdir"

\* handle_repo up to the existence check: which branch the task takes
Acquisition(repo, dirs) ==
    IF repo.owner = None THEN "owner"             \* "Repo without an owner!"
    ELSE IF ~repo.clone_url THEN "url"            \* "Repo without a clone URL!"
    ELSE IF ClonePath(repo) \in dirs THEN "update"
    ELSE "mkdir"

\* handle_repo: owner and clone_url, clone_path, try_exists(&clone_path)
UnitStart(i) ==
    /\ units[i].pc = "spawned"
    /\ LET a == Acquisition(units[i].repo, repoDirs)
       IN  SetUnit(i, Outcome(units[i], a \in {"update", "mkdir"}, a, a))
    /\ UNCHANGED <<repoDirs, ownerDirs>>
    /\ UnitFrame

\* update_repo: git -C path pull, pass or fail by its exit status; it fails
\* when the directory is no longer there
UnitUpdate(i) ==
    /\ units[i].pc = "update"
    /\ \E ok \in BOOLEAN :
         /\ ok => ClonePath(units[i].repo) \in repoDirs
         /\ SetUnit(i, Outcome(units[i], ok, "delay", "pull"))
    /\ UNCHANGED <<repoDirs, ownerDirs>>
    /\ UnitFrame

\* clone_repo: create_dir_all(&clone_path)
UnitMkdir(i) ==
    /\ units[i].pc = "mkdir"
    /\ repoDirs' = repoDirs \cup {ClonePath(units[i].repo)}
    /\ ownerDirs' = ownerDirs \cup {units[i].repo.owner}
    /\ SetUnit(i, [units[i] EXCEPT !.pc = "clone"])
    /\ UnitFrame

\* clone_repo: git clone --quiet --depth 1, pass or fail by its exit status.
\* The directory stays whatever the exit status: nothing removes it.
UnitClone(i) ==
    /\ units[i].pc = "clone"
    /\ \E ok \in BOOLEAN :
         SetUnit(i, Outcome(units[i], ok, "delay", "clone"))
    /\ repoDirs' = repoDirs \cup {ClonePath(units[i].repo)}
    /\ UNCHANGED ownerDirs
    /\ UnitFrame

\* handle_repo: sleep(Duration::from_millis(100))
UnitDelay(i) ==
    /\ units[i].pc = "delay"
    /\ SetUnit(i, [units[i] EXCEPT !.pc = "scan"])
    /\ UNCHANGED <<repoDirs, ownerDirs>>
    /\ UnitFrame

\* handle_repo removing the working copy whatever the rm switch
AfterScanAlwaysRemoves(rm) == "remove"

\* handle_repo after a successful scan
AfterScan(rm) == IF rm THEN "remove" ELSE "ok"

\* search_repo: the walk fails when the root is not there, and may fail on any
\* entry or file; else it returns the counts
UnitScan(i) ==
    /\ units[i].pc = "scan"
    /\ \/ SetUnit(i, Outcome(units[i], FALSE, "", "scan"))
       \/ /\ ClonePath(units[i].repo) \in repoDirs
          /\ \E r \in ScanResults :
               SetUnit(i, [units[i] EXCEPT !.pc = AfterScan(cli_app.rm), !.inner = r])
    /\ UNCHANGED <<repoDirs, ownerDirs>>
    /\ UnitFrame

\* handle_repo: remove_dir_all(&clone_path)?, which fails when the directory is
\* not there
UnitRemove(i) ==
    /\ units[i].pc = "remove"
    /\ repoDirs' = repoDirs \ {ClonePath(units[i].repo)}
    /\ SetUnit(i, Outcome(units[i], ClonePath(units[i].repo) \in repoDirs, "ok", "remove"))
    /\ UNCHANGED ownerDirs
    /\ UnitFrame

UnitStep ==
    \E i \in 1..Len(units) :
        \/ UnitStart(i)
        \/ UnitUpdate(i)
        \/ UnitMkdir(i)
        \/ UnitClone(i)
        \/ UnitDelay(i)
        \/ UnitScan(i)
        \/ UnitRemove(i)

Next ==
    \/ CheckRateLimit
    \/ Wake
    \/ Tick
    \/ Search
    \/ HandlePage
    \/ GetPage
    \/ Join
    \/ Write
    \/ Cleanup
    \/ Exit
    \/ UnitStep

Spec == Init /\ [][Next]_vars

(***************************************************************************)
(* main up to the construction of the Runner: the query file is read.      *)
(***************************************************************************)
runner == <<cli_app, pc, error, now, rate, wakeAt, page, units, handles, joined,
            succeeded, failed, results, report, rm_paths, rm_left, repoDirs,
            ownerDirs, netlog, discovered>>

LoadInit ==
    /\ RunnerInit
    /\ query_file \in QueryFiles
    /\ code_queries = Unread
    /\ tree = NoTree
    /\ counts = NotSearched

\* main: CodeQueries::from_file(&cli_app.query_file)
ReadQueries ==
    /\ code_queries = Unread
    /\ code_queries' = FromFile(query_file)
    /\ UNCHANGED <<runner, query_file, tree, counts>>

LoadNext == ReadQueries

LoadSpec == LoadInit /\ [][LoadNext]_vars

(***************************************************************************)
(* One call of search_repo, on a working copy as it lies on disk.          *)
(***************************************************************************)
ScanInit ==
    /\ RunnerInit
    /\ query_file = PatternsFile
    /\ code_queries = FromFile(PatternsFile)
    /\ tree \in WorkingCopies
    /\ counts = NotSearched

\* search_repo(&clone_path, ...)
SearchRepo ==
    /\ ~counts.done
    /\ counts' = [done |-> TRUE, hits |-> SearchRepoHits(tree)]
    /\ UNCHANGED <<runner, query_file, code_queries, tree>>

ScanNext == SearchRepo

ScanSpec == ScanInit /\ [][ScanNext]_vars

(***************************************************************************)
(* Properties                                                              *)
(***************************************************************************)
Ended == pc \in {"done", "failed", "exited"}

UnitIds(S) == {Identifier(units[i].repo.owner, units[i].repo.name) : i \in S}

OkUnits == {i \in 1..Len(units) : units[i].pc = "ok"}
ErrUnits == {i \in 1..Len(units) : units[i].pc = "err"}

RowIds == {r[1] : r \in report.rows}

\* C1: once the report is written, the identifiers of its data rows are exactly
\* the distinct identifiers of the tasks that returned Ok, one row for each.
C1_RowsAreTheSucceeded ==
    report # NoReport =>
        /\ RowIds = UnitIds(OkUnits)
        /\ Cardinality(report.rows) = Cardinality(UnitIds(OkUnits))

\* a report written after one task succeeded and another, of another
\* repository, failed
C1_Witness ==
    /\ report # NoReport
    /\ OkUnits # {}
    /\ ErrUnits # {}
    /\ UnitIds(ErrUnits) \cap UnitIds(OkUnits) = {}

\* C2: the report is written only when every task that was spawned has
\* returned and run has taken its outcome from its handle.
C2_ReportAfterAllAwaited ==
    report # NoReport =>
        /\ \A i \in 1..Len(units) : Finished(units[i])
        /\ joined = Len(units)
        /\ succeeded + failed = Len(units)

\* a report written after two tasks were awaited
C2_Witness ==
    /\ report # NoReport
    /\ Len(units) >= 2
    /\ joined = Len(units)

\* C3 (as claimed): a descriptor without owner or clone URL never ends the run
\* and never keeps a descriptor that was served from being spawned: once
\* handle_page is through, every descriptor served so far has its task.
C3_MetadataErrorStaysLocal ==
    /\ error # "metadata"
    /\ pc # "page" => Len(units) = Len(discovered)

\* a finished run that got through discovery, whose descriptors name distinct
\* repositories, and whose tasks failed in git clone (at least one) or succeeded
CloneFailureRun ==
    /\ Ended
    /\ error \in {"", "cleanup"}
    /\ Len(units) = Len(discovered)
    /\ \A i \in 1..Len(units) :
         \/ units[i].pc = "ok"
         \/ units[i].pc = "err" /\ units[i].err = "clone"
    /\ \A i, j \in 1..Len(units) : i # j => units[i].repo # units[j].repo
    /\ ErrUnits # {}

\* C4 (as claimed): in a run where k >= 1 of the N repositories discovered fail
\* in git clone and the others succeed, run returns Ok, the report has N - k
\* rows and failed = k, with or without rm.
C4_CloneFailureRunSucceeds ==
    CloneFailureRun =>
        /\ error = ""
        /\ Cardinality(report.rows) = Len(units) - Cardinality(ErrUnits)
        /\ failed = Cardinality(ErrUnits)

\* C5 (as claimed): when run ends with a discovery error, every task spawned
\* before has returned and has been awaited.
C5_DiscoveryErrorAwaitsLaunched ==
    (pc = "failed" /\ error = "discovery") =>
        /\ \A i \in 1..Len(units) : Finished(units[i])
        /\ joined = Len(units)

\* C6: a run in which a discovery request failed (rate-limit query, search or
\* page fetch) never creates the report file.
C6_NoReportAfterDiscoveryError ==
    error = "discovery" => report = NoReport

\* a discovery error after a task was spawned and has succeeded
C6_Witness ==
    /\ error = "discovery"
    /\ OkUnits # {}

LastCall == IF netlog = <<>> THEN "" ELSE netlog[Len(netlog)].call

IsRequest(call) == call \in {"search", "page"}

\* C7: every search request (the search, a page fetch) directly follows a
\* rate-limit query; if that query said remaining 0, the request is not made
\* before the reset timestamp; and a check that says remaining 0 with a reset
\* timestamp not in the future goes on to the request without sleeping.
C7_RequestsFollowRateLimit ==
    [][ /\ (Len(netlog') > Len(netlog) /\ IsRequest(netlog'[Len(netlog')].call)) =>
             /\ LastCall = "ratelimit"
             /\ rate.remaining = 0 => now >= rate.reset
        /\ (pc \in {"check0", "check"} /\ pc' # "failed"
            /\ rate'.remaining = 0 /\ rate'.reset <= now) =>
             pc' \in {"query", "next"} ]_vars

\* the runner asleep in the page loop until a reset that lies ahead
C7_Witness ==
    /\ pc = "sleep"
    /\ rate.remaining = 0
    /\ rate.reset > now
    /\ units # <<>>

\* C8 (as claimed): a query string of more than 256 characters ends the run
\* before any network call and before any task is spawned.
C8_LongQueryFailsBeforeNetwork ==
    error = "config" => netlog = <<>> /\ units = <<>>

\* C9 (as claimed): no two tasks are at work on the same clone path at once.
C9_NoTwoUnitsOnOnePath ==
    \A i, j \in 1..Len(units) :
        (i # j /\ Running(units[i]) /\ Running(units[j]))
            => ClonePath(units[i].repo) # ClonePath(units[j].repo)

Requested == SelectSeq(netlog, LAMBDA e : IsRequest(e.call))

\* C10 (as claimed): the pages are requested in the order of the tokens, run
\* leaves the page loop only when there is no further page, and in a run
\* without a discovery error every descriptor served has exactly one task.
C10_PagesInOrderAllLaunched ==
    /\ \A k \in 1..Len(Requested) : Requested[k].token = k
    /\ pc \in {"join", "cleanup", "done"} => page.next = 0
    /\ (Ended /\ error \notin {"discovery", "config"}) =>
          /\ Len(units) = Len(discovered)
          /\ \A i \in 1..Len(units) : units[i].repo = discovered[i]

\* with rm set, a task returns Ok only after remove_dir_all of its clone path
RemovedOwners == {units[i].repo.owner : i \in OkUnits}

\* C11 (as claimed): with rm set, once every handle has been awaited, rm_paths
\* holds exactly the owners of which a repository was removed: no owner all of
\* whose tasks failed.
C11_CleanupSetIsRemovedOwners ==
    (cli_app.rm /\ pc = "join" /\ joined = Len(handles)) =>
        rm_paths = RemovedOwners

\* C12: the report file has the header "repo" and then every pattern in the
\* order of the pattern list, and for every record of the aggregator exactly one
\* row: the identifier, then one count per pattern in that order, 0 for a
\* pattern the record does not hold.
C12_ReportLayout ==
    report # NoReport =>
        /\ Len(report.header) = Len(Patterns) + 1
        /\ report.header[1] = "repo"
        /\ \A k \in 1..Len(Patterns) : report.header[k + 1] = Patterns[k]
        /\ Cardinality(report.rows) = Cardinality(DOMAIN results)
        /\ \A id \in DOMAIN results :
             \E r \in report.rows :
                /\ Len(r) = Len(Patterns) + 1
                /\ r[1] = id
                /\ \A k \in 1..Len(Patterns) :
                     r[k + 1] = IF Patterns[k] \in DOMAIN results[id]
                                THEN results[id][Patterns[k]] ELSE 0

\* a report of two rows in which one pattern matched in no repository: its
\* column is in the header and holds 0 in both rows
C12_Witness ==
    /\ Cardinality(report.rows) = 2
    /\ \E k \in 1..Len(Patterns) :
         /\ report.header[k + 1] = Patterns[k]
         /\ \A r \in report.rows : r[k + 1] = 0
    /\ \E r \in report.rows : \E k \in 1..Len(Patterns) : r[k + 1] # 0

\* the number of lines of a file: its line feeds, and the rest after the last
NumLines(f) ==
    Cardinality({k \in 1..Len(f) : f[k] = "\n"})
    + (IF f # <<>> /\ f[Len(f)] # "\n" THEN 1 ELSE 0)

\* the positions of the characters of line i
LineAt(f, i) ==
    {k \in 1..Len(f) :
        /\ f[k] # "\n"
        /\ Cardinality({j \in 1..(k - 1) : f[j] = "\n"}) = i - 1}

\* of these, the positions from the first to the last that is not whitespace
KeptAt(f, i) ==
    {k \in LineAt(f, i) :
        \E a, b \in LineAt(f, i) : a <= k /\ k <= b /\ f[a] # " " /\ f[b] # " "}

\* C13: from_file fails exactly on a file without a line; otherwise it yields
\* one pattern per line of the file, in the order of the lines, each the line
\* without its leading and trailing whitespace; blank lines and repeated lines
\* each yield their pattern.
C13_OnePatternPerLine ==
    code_queries # Unread =>
        IF NumLines(query_file) = 0
        THEN code_queries.state = "err"
        ELSE /\ code_queries.state = "ok"
             /\ Len(code_queries.inner) = NumLines(query_file)
             /\ \A i \in 1..NumLines(query_file) :
                  LET q == code_queries.inner[i]
                      kept == KeptAt(query_file, i)
                  IN  /\ Len(q) = Cardinality(kept)
                      /\ \A k \in kept :
                           q[k + 1 - CHOOSE a \in kept : \A b \in kept : a <= b]
                              = query_file[k]

\* a file read into three patterns of which two are the same and one is empty
C13_Witness ==
    /\ code_queries.state = "ok"
    /\ \E i, j, k \in 1..Len(code_queries.inner) :
         /\ i < j
         /\ code_queries.inner[i] = code_queries.inner[j]
         /\ code_queries.inner[i] # <<>>
         /\ code_queries.inner[k] = <<>>

\* the regular files of a working copy that are not hidden and not below a
\* hidden directory of the copy
Visible(t) ==
    {e \in t.entries : e.file /\ \A k \in 1..Len(e.path) : ~is_hidden(e.path[k])}

\* C14 (as claimed): search_repo counts the matches of exactly the regular
\* files of the working copy that are not hidden and not below a hidden
\* directory, whatever the name of the working copy's own directory.
C14_HiddenEntriesExcluded ==
    counts.done => counts.hits = SumHits(Visible(tree))

\* the clone path of task i
PathOf(i) == ClonePath(units[i].repo)

\* C15: every task takes one acquisition branch, chosen by the existence check
\* of its clone path: to git pull only if the path is there at the check, to
\* create_dir_all and git clone only if it is not; a task in one branch never
\* enters the other; and a task that failed stays failed, has no scan result
\* and has removed nothing.
C15_OneAcquisitionByExistence ==
    [][ \A i \in 1..Len(units) :
          LET a == units[i].pc
              b == units'[i].pc
          IN  /\ (a = "spawned" /\ b = "update") => PathOf(i) \in repoDirs
              /\ (a = "spawned" /\ b = "mkdir") => PathOf(i) \notin repoDirs
              /\ (b = "update" /\ a # b) => a = "spawned"
              /\ (b = "mkdir" /\ a # b) => a = "spawned"
              /\ (b = "clone" /\ a # b) => a = "mkdir"
              /\ (a = "update" /\ a # b) => b \in {"delay", "err", "cancelled"}
              /\ (a \in {"mkdir", "clone"} /\ a # b) =>
                    b \in {"clone", "delay", "err", "cancelled"}
              /\ (a \in {"update", "clone"} /\ b = "err") =>
                    /\ units'[i].err = (IF a = "update" THEN "pull" ELSE "clone")
                    /\ units'[i].inner = EmptyMap
                    /\ repoDirs \subseteq repoDirs'
              /\ a = "err" => units'[i] = units[i] ]_vars

\* one task failed in git pull on a path that was there, another in git clone
\* on a path that was not
C15_Witness ==
    \E i, j \in 1..Len(units) :
        /\ units[i].pc = "err" /\ units[i].err = "pull"
        /\ units[j].pc = "err" /\ units[j].err = "clone"
        /\ PathOf(i) # PathOf(j)

\* C16: in a task the scan starts only from the 100ms sleep, the sleep only
\* from an acquisition that succeeded; remove_dir_all is reached only with rm
\* set and from a scan that returned its counts; a task whose scan fails, and
\* a task without rm, leave the file system as it is; and a clone path leaves
\* the file system only by the remove_dir_all of a task of that path.
C16_StepsInOrder ==
    [][ /\ \A i \in 1..Len(units) :
             LET a == units[i].pc
                 b == units'[i].pc
             IN  /\ (b = "scan" /\ a # b) => a = "delay"
                 /\ (b = "delay" /\ a # b) => a \in {"update", "clone"}
                 /\ (b = "remove" /\ a # b) =>
                       /\ a = "scan"
                       /\ cli_app.rm
                       /\ units'[i].inner \in ScanResults
                 /\ (a = "scan" /\ b \in {"err", "ok"}) =>
                       /\ repoDirs' = repoDirs
                       /\ b = "ok" => ~cli_app.rm
        /\ \A p \in repoDirs \ repoDirs' :
             /\ cli_app.rm
             /\ \E i \in 1..Len(units) :
                  /\ PathOf(i) = p
                  /\ units[i].pc = "remove"
                  /\ units'[i].pc = "ok" ]_vars

\* with rm set, a task whose scan failed and whose working copy is still
\* there, beside a task that scanned and removed its own
C16_Witness ==
    /\ cli_app.rm
    /\ \E i, j \in 1..Len(units) :
         /\ units[i].pc = "err" /\ units[i].err = "scan"
         /\ PathOf(i) \in repoDirs
         /\ units[j].pc = "ok"
         /\ PathOf(j) \notin repoDirs

\* C17 (as claimed): the directory of a clone that failed stays on disk, for
\* any task or run that comes later to find.
C17_FailedCloneLeavesDirectory ==
    \A i \in 1..Len(units) :
        (units[i].pc = "err" /\ units[i].err = "clone") => PathOf(i) \in repoDirs

\* the tasks that returned Ok for the identifier of task i
OkUnitsLike(i) == {j \in OkUnits : units[j].repo = units[i].repo}

\* the one of them that was spawned last
LastOkLike(i) == CHOOSE j \in OkUnitsLike(i) : \A k \in OkUnitsLike(i) : k <= j

\* C18: in the report every identifier of a task that returned Ok has exactly
\* one row, with the counts of the last-spawned such task, nothing of the
\* others; and succeeded counts every such task.
C18_LastLaunchedWins ==
    report # NoReport =>
        /\ succeeded = Cardinality(OkUnits)
        /\ \A i \in OkUnits :
             LET id == Identifier(units[i].repo.owner, units[i].repo.name)
             IN  /\ Cardinality({r \in report.rows : r[1] = id}) = 1
                 /\ Row(id, units[LastOkLike(i)].inner) \in report.rows

\* a report after two tasks of one identifier returned Ok with different counts
C18_Witness ==
    /\ report # NoReport
    /\ \E i, j \in OkUnits :
         /\ i < j
         /\ units[i].repo = units[j].repo
         /\ units[i].inner # units[j].inner

\* The run under fair scheduling: a step that can be taken (the runner's next
\* statement, a wake-up, a task's next call returning) is eventually taken.
\* The provider serves no more than MaxPages pages, a sleep ends at its
\* deadline, and every git call, scan and removal returns with some outcome.
FairSpec == Spec /\ WF_vars(Next)

\* C19: under fair scheduling the process ends, with the report written or an
\* error returned; so the runner does not stay for ever in the loop that awaits
\* the handles, nor anywhere else.
C19_RunTerminates == <>(pc = "exited" /\ (report # NoReport \/ error # ""))

\* a process that ended after the runner had awaited a task that failed and a
\* task that succeeded
C19_Witness ==
    /\ pc = "exited"
    /\ joined = 2
    /\ succeeded = 1
    /\ failed = 1

====
